---- MODULE Spec2Model ----
(***************************************************************************)
(* Model of InfluencerScraperV3Cloud.py: the "Scrape Influencers" handler  *)
(* of main() and the helper functions it calls.  The Apify transport and   *)
(* the two Google Sheets worksheets are the environment: every call to     *)
(* them either returns a value drawn from a small set or raises.           *)
(***************************************************************************)
EXTENDS Integers, Sequences, FiniteSets

VARIABLES
    pc,               \* position of the button handler in main()
    hashtags_input,   \* st.text_input("Hashtags", "")
    results_limit,    \* st.number_input(..., min_value=1, max_value=1000)
    hashtags,         \* main(): the parsed list
    hidx,             \* fetch_owner_usernames_from_hashtags: index of `htag`
    unique_usernames, \* the set built by the resolver, as multiplicities
    todo,             \* elements of unique_usernames the for loop has not yet yielded
    username,         \* main(): loop variable
    profile_data,     \* main(): result of scrape_profile_info
    median_likes,     \* main(): first component of get_last_5_posts_stats
    median_comments,  \* main(): second component
    main_rows,        \* rows of the "Main" worksheet below the header
    hashtag_rows,     \* rows of the "Hashtags" worksheet below the header
    trace,            \* history: every transport call and store operation, in order
    iter,             \* history of the current loop iteration: its calls and how each ended
    owners_ok,        \* history of the current resolver call: owners its successful runs listed
    failed_calls,     \* history of the current resolver call: indices of the runs that raised
    owners_seen,      \* history of the resolver call: owners of the items its runs delivered
    s_posts,          \* sampler harness: the dataset the posts actor returns
    s_result,         \* sampler harness: what get_last_5_posts_stats returned
    q_in,             \* rate harness: followers_count, median_likes, median_comments
    q_rate,           \* rate harness: the engagement_rate computed from q_in
    runs,             \* two runs on one Main worksheet: the loop state of each run
    row_run           \* two runs: for each row appended to Main, the run that appended it

vars == <<pc, hashtags_input, results_limit, hashtags, hidx, unique_usernames,
          todo, username, profile_data, median_likes, median_comments,
          main_rows, hashtag_rows, trace, iter, owners_ok, failed_calls, owners_seen,
          s_posts, s_result, q_in, q_rate, runs, row_run>>

pipeline_vars == <<pc, hashtags_input, results_limit, hashtags, hidx,
                   unique_usernames, todo, username, profile_data, median_likes,
                   median_comments, main_rows, hashtag_rows, trace, iter,
                   owners_ok, failed_calls, owners_seen>>

sampler_vars == <<s_posts, s_result>>

qual_vars == <<q_in, q_rate>>

two_vars == <<runs, row_run>>

\* what the handler of a single run leaves alone
harness_vars == <<sampler_vars, qual_vars, two_vars>>

\* the variables of the single run, but for the Main worksheet
single_run_vars == <<pc, hashtags_input, results_limit, hashtags, hidx,
                     unique_usernames, todo, username, profile_data, median_likes,
                     median_comments, hashtag_rows, trace, iter, owners_ok,
                     failed_calls, owners_seen>>

----------------------------------------------------------------------------
(* Bounds of the model *)

MaxInputLen == 3     \* characters typed into the hashtag box
MaxUsers == 2        \* distinct account names the transport can report
MaxItems == 2        \* items in the dataset of one hashtag run
MaxPosts == 9        \* posts in the dataset of one posts run (sampler harness)

Users == 1..MaxUsers
Missing == -1        \* a key that is absent from a dataset item
NoUser == 0          \* `username` before the for loop has bound it

----------------------------------------------------------------------------
(* Strings are sequences of one-character strings. *)

Chars == {",", " ", "a"}

RECURSIVE StringsUpTo(_)
StringsUpTo(n) ==
    IF n = 0 THEN {<<>>}
    ELSE LET shorter == StringsUpTo(n - 1)
         IN  shorter \cup {Append(s, c) : s \in {t \in shorter : Len(t) = n - 1}, c \in Chars}

Inputs == StringsUpTo(MaxInputLen)

RECURSIVE lstrip(_)
lstrip(s) == IF s # <<>> /\ Head(s) = " " THEN lstrip(Tail(s)) ELSE s

RECURSIVE rstrip(_)
rstrip(s) ==
    IF s # <<>> /\ s[Len(s)] = " " THEN rstrip(SubSeq(s, 1, Len(s) - 1)) ELSE s

\* str.strip()
strip(s) == rstrip(lstrip(s))

\* str.split(","): one piece more than there are commas
RECURSIVE split(_)
split(s) ==
    IF \E i \in 1..Len(s) : s[i] = ","
    THEN LET i == CHOOSE j \in 1..Len(s) :
                      s[j] = "," /\ \A k \in 1..(j - 1) : s[k] # ","
         IN  <<SubSeq(s, 1, i - 1)>> \o split(SubSeq(s, i + 1, Len(s)))
    ELSE <<s>>

RECURSIVE keep_non_blank(_)
keep_non_blank(pieces) ==
    IF pieces = <<>> THEN <<>>
    ELSE IF strip(Head(pieces)) # <<>>
         THEN <<strip(Head(pieces))>> \o keep_non_blank(Tail(pieces))
         ELSE keep_non_blank(Tail(pieces))

\* the comprehension without its `if tag.strip()`
parse_hashtags_unfiltered(input) ==
    LET pieces == split(input) IN [i \in 1..Len(pieces) |-> strip(pieces[i])]

\* the list made unique: a hashtag typed twice is kept once, at its first place
parse_hashtags_dedup(input) ==
    LET tags == keep_non_blank(split(input))
        firsts == {i \in 1..Len(tags) : \A j \in 1..(i - 1) : tags[j] # tags[i]}
    IN  [k \in 1..Cardinality(firsts) |->
            tags[CHOOSE i \in firsts : Cardinality({j \in firsts : j < i}) = k - 1]]

\* [tag.strip() for tag in hashtags_input.split(",") if tag.strip()]
parse_hashtags(input) == keep_non_blank(split(input))

\* ", ".join(hashtags)
RECURSIVE join(_)
join(tags) ==
    IF tags = <<>> THEN <<>>
    ELSE IF Len(tags) = 1 THEN Head(tags)
    ELSE Head(tags) \o <<",", " ">> \o join(Tail(tags))

----------------------------------------------------------------------------
(* Dataset items.  dict.get(key, default) and the `in` test of the code.   *)

\* item.get(key, default)
Get(item, key, default) == IF item[key] = Missing THEN default ELSE item[key]

\* datasets of the hashtag actor: each item is its ownerUsername, or Missing
\* when the item has no such key
RECURSIVE ItemSeqs(_)
ItemSeqs(n) ==
    IF n = 0 THEN {<<>>}
    ELSE LET shorter == ItemSeqs(n - 1)
         IN  shorter \cup {Append(s, o) : s \in {t \in shorter : Len(t) = n - 1},
                                          o \in Users \cup {Missing}}

\* what client.actor(...).call + iterate_items can do: deliver these items
\* and then either finish or raise
HashtagOutcomes == [items : ItemSeqs(MaxItems), raised : BOOLEAN]

\* first items of the datasets of the profile actor
ProfileItems ==
    { [postsCount |-> Missing, followersCount |-> Missing],
      [postsCount |-> 10, followersCount |-> 500],
      [postsCount |-> 6,  followersCount |-> 1000],
      [postsCount |-> 5,  followersCount |-> 1001],
      [postsCount |-> 6,  followersCount |-> 1001],
      [postsCount |-> 6,  followersCount |-> 1200],
      [postsCount |-> 6,  followersCount |-> 1201] }

ProfileOutcomes ==
    {[raised |-> TRUE, items |-> <<>>], [raised |-> FALSE, items |-> <<>>]}
        \cup {[raised |-> FALSE, items |-> <<it>>] : it \in ProfileItems}

Post(ts, likes, comments) ==
    [takenAtTimestamp |-> ts, likesCount |-> likes, commentsCount |-> comments]

\* datasets of the posts actor used in the pipeline
PipelineFeeds ==
    { <<>>,
      <<Post(Missing, 4, Missing), Post(1, 7, 2)>> }

\* the call or the iteration of the dataset may raise, also after posts were read
PostsOutcomes == [raised : BOOLEAN, posts : PipelineFeeds]

----------------------------------------------------------------------------
(* get_last_5_posts_stats *)

Window == 8    \* posts[:8]

TsKey(p) == Get(p, "takenAtTimestamp", 0)

\* list.sort(key=..., reverse=True) is stable: a post goes after every post
\* already placed whose key is greater or equal
RECURSIVE insert_desc(_, _)
insert_desc(s, p) ==
    IF s = <<>> THEN <<p>>
    ELSE IF TsKey(Head(s)) >= TsKey(p)
         THEN <<Head(s)>> \o insert_desc(Tail(s), p)
         ELSE <<p>> \o s

RECURSIVE sort_desc(_)
sort_desc(s) ==
    IF s = <<>> THEN <<>>
    ELSE insert_desc(sort_desc(SubSeq(s, 1, Len(s) - 1)), s[Len(s)])

\* posts[:n]
FirstN(s, n) == SubSeq(s, 1, IF Len(s) < n THEN Len(s) ELSE n)

\* a window of five posts, as the function's name has it
recent_posts_five(posts) == FirstN(sort_desc(posts), 5)

recent_posts(posts) == FirstN(sort_desc(posts), Window)

RECURSIVE insert_asc(_, _)
insert_asc(s, v) ==
    IF s = <<>> THEN <<v>>
    ELSE IF Head(s) <= v
         THEN <<Head(s)>> \o insert_asc(Tail(s), v)
         ELSE <<v>> \o s

RECURSIVE sort_asc(_)
sort_asc(s) ==
    IF s = <<>> THEN <<>>
    ELSE insert_asc(sort_asc(Tail(s)), Head(s))

\* int(np.median(values)) for a non-empty list of non-negative integers
int_median(values) ==
    LET v == sort_asc(values)
        n == Len(v)
    IN  IF n % 2 = 1 THEN v[(n + 1) \div 2]
        ELSE (v[n \div 2] + v[n \div 2 + 1]) \div 2

likes_list(posts) == [i \in 1..Len(posts) |-> Get(posts[i], "likesCount", 0)]
comments_list(posts) == [i \in 1..Len(posts) |-> Get(posts[i], "commentsCount", 0)]

\* the except branch working on whatever had been read before the exception
get_last_5_posts_stats_partial(outcome, limit) ==
    IF outcome.posts = <<>> THEN <<0, 0>>
    ELSE LET recent == recent_posts(outcome.posts)
         IN  <<int_median(likes_list(recent)), int_median(comments_list(recent))>>

\* the pair (median_likes, median_comments) returned for one outcome of the
\* posts actor; `limit` only goes into run_input
get_last_5_posts_stats(outcome, limit) ==
    IF outcome.raised THEN <<0, 0>>
    ELSE IF outcome.posts = <<>> THEN <<0, 0>>
    ELSE LET recent == recent_posts(outcome.posts)
         IN  <<int_median(likes_list(recent)), int_median(comments_list(recent))>>

----------------------------------------------------------------------------
(* fetch_owner_usernames_from_hashtags *)

\* set(): no name is held
EmptySet == [u \in Users |-> 0]

\* a list in place of the set: list.append(name) holds a name once per addition
list_append(held, name) == [held EXCEPT ![name] = @ + 1]

\* unique_usernames.add(name): a set holds a name once however often it is added
set_add(held, name) == [held EXCEPT ![name] = 1]

\* the body of `for item in ...iterate_items()` over the items delivered
RECURSIVE add_owners(_, _)
add_owners(held, items) ==
    IF items = <<>> THEN held
    ELSE add_owners(IF Head(items) # Missing THEN set_add(held, Head(items)) ELSE held,
                    Tail(items))

Owners(items) == {items[i] : i \in 1..Len(items)} \ {Missing}

Members(held) == {u \in Users : held[u] > 0}

----------------------------------------------------------------------------
(* scrape_profile_info *)

NoneProfile == [is_none |-> TRUE, username |-> NoUser, posts_count |-> 0, followers_count |-> 0]

\* the except branch returning an empty profile instead of None
scrape_profile_info_default(name, outcome) ==
    IF outcome.raised
    THEN [is_none |-> FALSE, username |-> name, posts_count |-> 0, followers_count |-> 0]
    ELSE IF outcome.items = <<>> THEN NoneProfile
    ELSE [is_none |-> FALSE,
          username |-> name,
          posts_count |-> Get(outcome.items[1], "postsCount", 0),
          followers_count |-> Get(outcome.items[1], "followersCount", 0)]

scrape_profile_info(name, outcome) ==
    IF outcome.raised THEN NoneProfile
    ELSE IF outcome.items = <<>> THEN NoneProfile
    ELSE [is_none |-> FALSE,
          username |-> name,
          posts_count |-> Get(outcome.items[1], "postsCount", 0),
          followers_count |-> Get(outcome.items[1], "followersCount", 0)]

----------------------------------------------------------------------------
(* main(): the qualification tests *)

MinFollowers == 1000
MinPosts == 5

\* >= in place of >
audience_gate_inclusive(profile) ==
    profile.followers_count >= MinFollowers /\ profile.posts_count >= MinPosts

\* or in place of and
audience_gate_either(profile) ==
    profile.followers_count > MinFollowers \/ profile.posts_count > MinPosts

\* profile_data["followers_count"] > 1000 and profile_data["posts_count"] > 5
audience_gate(profile) ==
    profile.followers_count > MinFollowers /\ profile.posts_count > MinPosts

\* the division without the `if profile_data["followers_count"] > 0` around it
engagement_rate_unguarded(profile, likes, comments) ==
    [num |-> (likes + comments) * 100, den |-> profile.followers_count]

\* engagement_rate as an exact fraction num/den of a percentage: den is the
\* divisor of the division at line 242; 0/1 in the else branch, which does not divide
engagement_rate(profile, likes, comments) ==
    IF profile.followers_count > 0
    THEN [num |-> (likes + comments) * 100, den |-> profile.followers_count]
    ELSE [num |-> 0, den |-> 1]

\* the engagement test without its `continue`
low_engagement_never(rate) == FALSE

\* engagement_rate < 0.5
low_engagement(rate) == 2 * rate.num < rate.den

\* f"{engagement_rate:.2f}", as a number of hundredths (nearest, ties to even)
format_rate(rate) ==
    LET q == (rate.num * 100) \div rate.den
        r == (rate.num * 100) % rate.den
    IN  IF 2 * r > rate.den \/ (2 * r = rate.den /\ q % 2 = 1) THEN q + 1 ELSE q

\* the row append_profile_to_sheet builds (the columns derived from numbers)
profile_row(profile, comments, likes, rate) ==
    [username |-> profile.username,
     posts_count |-> profile.posts_count,
     followers_count |-> profile.followers_count,
     median_comments |-> comments,
     median_likes |-> likes,
     engagement_rate |-> format_rate(rate)]

\* insert_row(row, 1) below the header: the new row goes above the stored ones
insert_row_top(rows, row) == <<row>> \o rows

\* worksheet.append_row(row): the row is added after the last row
append_row(rows, row) == Append(rows, row)

\* a read that returns the first stored name only
usernames_col_first(rows) == IF rows = <<>> THEN {} ELSE {rows[1].username}

\* main_worksheet.col_values(2), below the header
usernames_col(rows) == {rows[i].username : i \in 1..Len(rows)}

\* col_values(3) in place of col_values(2): the posts counts are searched
user_already_in_sheet_wrong_col(name, rows, read_ok) ==
    read_ok /\ name \in {rows[i].posts_count : i \in 1..Len(rows)}

\* the except branch returning True: a name that cannot be checked counts as stored
user_already_in_sheet_fail_closed(name, rows, read_ok) ==
    ~read_ok \/ name \in usernames_col(rows)

\* user_already_in_sheet: False when the read raises
user_already_in_sheet(name, rows, read_ok) == read_ok /\ name \in usernames_col(rows)

----------------------------------------------------------------------------
(* History *)

\* `trace` lists the operations of the whole run; `iter` lists those of the
\* loop iteration in progress (or, between iterations, of the last one) with
\* the way each ended.
HashtagCall(tag, limit) == [op |-> "hashtag_call", arg |-> tag, limit |-> limit]
AuditAppend(ok) == [op |-> "append_hashtags", ok |-> ok]
Op(op, name) == [op |-> op, arg |-> name]
\* present: whether the name was in the username column when it was read
Membership(name, ok, present) ==
    [op |-> "membership", arg |-> name, ok |-> ok, present |-> present]
Call(op, name, ok) == [op |-> op, arg |-> name, ok |-> ok]
\* with the number of items the profile job delivered and what
\* scrape_profile_info returned
ProfileCall(name, outcome, profile) ==
    [op |-> "profile_call", arg |-> name, ok |-> ~outcome.raised,
     items |-> Len(outcome.items), profile |-> profile]
\* with what get_last_5_posts_stats returned
PostsCall(name, ok, stats) ==
    [op |-> "posts_call", arg |-> name, ok |-> ok, likes |-> stats[1], comments |-> stats[2]]

----------------------------------------------------------------------------
(* The button handler of main() *)

\* the value the number_input starts with
ResultsLimits == {50}

\* the row an earlier run stored for account 1
ExistingRow == [username |-> 1, posts_count |-> 6, followers_count |-> 1200,
                median_comments |-> 1, median_likes |-> 5, engagement_rate |-> 50]

\* the Main worksheet when the run starts
InitialMain == <<ExistingRow>>

\* s_result before get_last_5_posts_stats has been called
SamplerIdle == <<>>

\* the two runs, and the state of a run that is not there
Runs == {1, 2}

NoCheck == <<>>

RunIdle == [pc |-> "Idle", todo |-> EmptySet, username |-> NoUser,
            profile_data |-> NoneProfile, median_likes |-> 0, median_comments |-> 0,
            checks |-> [u \in Users |-> NoCheck]]

\* q_in and q_rate outside the rate harness
QualUnused == [followers |-> 0, likes |-> 0, comments |-> 0]
QualIdle == <<>>

Init ==
    /\ pc = "Idle"
    /\ hashtags_input \in Inputs
    /\ results_limit \in ResultsLimits
    /\ hashtags = <<>>
    /\ hidx = 0
    /\ unique_usernames = EmptySet
    /\ todo = EmptySet
    /\ username = NoUser
    /\ profile_data = NoneProfile
    /\ median_likes = 0
    /\ median_comments = 0
    /\ main_rows = InitialMain
    /\ hashtag_rows = <<>>
    /\ trace = <<>>
    /\ iter = <<>>
    /\ owners_ok = {}
    /\ failed_calls = {}
    /\ owners_seen = {}
    /\ s_posts = <<>>
    /\ s_result = SamplerIdle
    /\ q_in = QualUnused
    /\ q_rate = QualIdle
    /\ runs = [r \in Runs |-> RunIdle]
    /\ row_run = <<>>

\* st.button pressed: the two validations and the parse
Validate ==
    /\ pc = "Idle"
    /\ IF strip(hashtags_input) = <<>>
       THEN pc' = "ValidationError" /\ hashtags' = hashtags
       ELSE /\ hashtags' = parse_hashtags(hashtags_input)
            /\ pc' = IF hashtags' = <<>> THEN "ValidationError" ELSE "Audit"
    /\ UNCHANGED <<hashtags_input, results_limit, hidx, unique_usernames, todo,
                   username, profile_data, median_likes, median_comments,
                   main_rows, hashtag_rows, trace, iter, owners_ok, failed_calls, owners_seen,
                   harness_vars>>

\* an exception of hashtag_worksheet.append_row would leave main() if it were not caught
after_audit_uncaught(ok) == IF ok THEN "Resolving" ELSE "Crashed"

\* where main() is after append_hashtags_to_sheet: its try catches every Exception
after_audit(ok) == "Resolving"

\* append_hashtags_to_sheet(hashtags_input, hashtags); the timestamp column is left out
AppendHashtags ==
    /\ pc = "Audit"
    /\ \E ok \in BOOLEAN :
          /\ hashtag_rows' =
                IF ok THEN append_row(hashtag_rows, [input_str |-> hashtags_input,
                                                 hashtags_str |-> join(hashtags)])
                ELSE hashtag_rows
          /\ trace' = Append(trace, AuditAppend(ok))
          /\ pc' = after_audit(ok)
    /\ hidx' = 1
    /\ unique_usernames' = EmptySet
    /\ UNCHANGED <<hashtags_input, results_limit, hashtags, todo, username,
                   profile_data, median_likes, median_comments, main_rows,
                   iter, owners_ok, failed_calls, owners_seen, harness_vars>>

\* a try around the whole loop: an exception ends the loop
next_htag_abort(i, raised) == IF raised THEN Len(hashtags) + 1 ELSE i + 1

\* the try is inside `for htag in hashtags`: the loop goes on to the next
\* element whether or not the iteration raised
next_htag(i, raised) == i + 1

\* one iteration of `for htag in hashtags`
ScrapeHashtag ==
    /\ pc = "Resolving"
    /\ hidx <= Len(hashtags)
    /\ \E out \in HashtagOutcomes :
          /\ unique_usernames' = add_owners(unique_usernames, out.items)
          /\ trace' = Append(trace, HashtagCall(hashtags[hidx], results_limit))
          /\ owners_ok' = IF out.raised THEN owners_ok
                          ELSE owners_ok \cup Owners(out.items)
          /\ failed_calls' = IF out.raised THEN failed_calls \cup {hidx}
                             ELSE failed_calls
          /\ owners_seen' = owners_seen \cup Owners(out.items)
          /\ hidx' = next_htag(hidx, out.raised)
    /\ UNCHANGED <<pc, hashtags_input, results_limit, hashtags, todo, username,
                   profile_data, median_likes, median_comments, main_rows,
                   hashtag_rows, iter, harness_vars>>

\* return unique_usernames; the for loop of main() starts over it
ResolverReturn ==
    /\ pc = "Resolving"
    /\ hidx > Len(hashtags)
    /\ todo' = unique_usernames
    /\ pc' = "Loop"
    /\ owners_ok' = {}
    /\ failed_calls' = {}
    /\ UNCHANGED <<hashtags_input, results_limit, hashtags, hidx, unique_usernames,
                   username, profile_data, median_likes, median_comments,
                   main_rows, hashtag_rows, trace, iter, owners_seen, harness_vars>>

\* what is left to iterate once the loop has yielded `name`
remaining(held, name) == [held EXCEPT ![name] = @ - 1]

\* The locals of one loop iteration are dead once it ends (each is assigned
\* again before it is read), and gone when an exception leaves main().
ClearLocals ==
    /\ username' = NoUser
    /\ profile_data' = NoneProfile
    /\ median_likes' = 0
    /\ median_comments' = 0

\* `for username in unique_usernames` yields a name, and user_already_in_sheet(username)
Filtering ==
    /\ pc = "Loop"
    /\ \E name \in Users, read_ok \in BOOLEAN :
          /\ todo[name] > 0
          /\ todo' = remaining(todo, name)
          /\ trace' = Append(trace, Op("membership", name))
          /\ iter' = <<Membership(name, read_ok, name \in usernames_col(main_rows))>>
          /\ IF user_already_in_sheet(name, main_rows, read_ok)
             THEN pc' = "Loop" /\ UNCHANGED username
             ELSE pc' = "Enriching" /\ username' = name
    /\ UNCHANGED <<hashtags_input, results_limit, hashtags, hidx, unique_usernames,
                   profile_data, median_likes, median_comments, main_rows,
                   hashtag_rows, owners_ok, failed_calls, owners_seen, harness_vars>>

\* profile_data = scrape_profile_info(username), the None test and the audience test
Enriching ==
    /\ pc = "Enriching"
    /\ \E out \in ProfileOutcomes :
          LET profile == scrape_profile_info(username, out)
          IN  /\ trace' = Append(trace, Op("profile_call", username))
              /\ iter' = Append(iter, ProfileCall(username, out, profile))
              /\ IF ~profile.is_none /\ audience_gate(profile)
                 THEN /\ pc' = "Sampling"
                      /\ profile_data' = profile
                      /\ UNCHANGED <<username, median_likes, median_comments>>
                 ELSE pc' = "Loop" /\ ClearLocals
    /\ UNCHANGED <<hashtags_input, results_limit, hashtags, hidx, unique_usernames,
                   todo, main_rows, hashtag_rows, owners_ok, failed_calls, owners_seen,
                   harness_vars>>

PostsLimit == 30    \* get_last_5_posts_stats(username, limit=30)

\* get_last_5_posts_stats(username, limit=30) and the engagement test
Sampling ==
    /\ pc = "Sampling"
    /\ \E out \in PostsOutcomes :
          LET stats == get_last_5_posts_stats(out, PostsLimit)
          IN  /\ trace' = Append(trace, Op("posts_call", username))
              /\ iter' = Append(iter, PostsCall(username, ~out.raised, stats))
              /\ IF low_engagement(engagement_rate(profile_data, stats[1], stats[2]))
                 THEN pc' = "Loop" /\ ClearLocals
                 ELSE /\ pc' = "Persisting"
                      /\ median_likes' = stats[1]
                      /\ median_comments' = stats[2]
                      /\ UNCHANGED <<username, profile_data>>
    /\ UNCHANGED <<hashtags_input, results_limit, hashtags, hidx, unique_usernames,
                   todo, main_rows, hashtag_rows, owners_ok, failed_calls, owners_seen,
                   harness_vars>>

\* where main() is after append_profile_to_sheet: the function has no try, so
\* an exception of append_row leaves main()
after_append(ok) == IF ok THEN "Loop" ELSE "Crashed"

\* append_profile_to_sheet(profile_data, median_comments, median_likes, engagement_rate)
Persisting ==
    /\ pc = "Persisting"
    /\ \E ok \in BOOLEAN :
          /\ main_rows' =
                IF ok
                THEN append_row(main_rows,
                            profile_row(profile_data, median_comments, median_likes,
                                        engagement_rate(profile_data, median_likes,
                                                        median_comments)))
                ELSE main_rows
          /\ trace' = Append(trace, Call("append_profile", username, ok))
          /\ iter' = Append(iter, Call("append_profile", username, ok))
          /\ pc' = after_append(ok)
    /\ ClearLocals
    /\ UNCHANGED <<hashtags_input, results_limit, hashtags, hidx, unique_usernames,
                   todo, hashtag_rows, owners_ok, failed_calls, owners_seen, harness_vars>>

\* the for loop is exhausted: st.success("Scraping and data append complete. ...")
Complete ==
    /\ pc = "Loop"
    /\ \A name \in Users : todo[name] = 0
    /\ pc' = "Done"
    /\ UNCHANGED <<hashtags_input, results_limit, hashtags, hidx, unique_usernames,
                   todo, username, profile_data, median_likes, median_comments,
                   main_rows, hashtag_rows, trace, iter, owners_ok, failed_calls, owners_seen,
                   harness_vars>>

Next ==
    \/ Validate
    \/ AppendHashtags
    \/ ScrapeHashtag
    \/ ResolverReturn
    \/ Filtering
    \/ Enriching
    \/ Sampling
    \/ Persisting
    \/ Complete

Spec == Init /\ [][Next]_vars

----------------------------------------------------------------------------
(* get_last_5_posts_stats on its own: the posts actor returns any dataset  *)
(* of up to MaxPosts posts, then the function is called once.              *)

PostKinds == {Post(Missing, 9, Missing), Post(1, 1, 4), Post(2, 4, 1)}

FetchLimits == {5, 30}

SamplerInit ==
    /\ pc = "Idle"
    /\ hashtags_input = <<>>
    /\ results_limit = 50
    /\ hashtags = <<>>
    /\ hidx = 0
    /\ unique_usernames = EmptySet
    /\ todo = EmptySet
    /\ username = NoUser
    /\ profile_data = NoneProfile
    /\ median_likes = 0
    /\ median_comments = 0
    /\ main_rows = InitialMain
    /\ hashtag_rows = <<>>
    /\ trace = <<>>
    /\ iter = <<>>
    /\ owners_ok = {}
    /\ failed_calls = {}
    /\ owners_seen = {}
    /\ s_posts = <<>>
    /\ s_result = SamplerIdle
    /\ q_in = QualUnused
    /\ q_rate = QualIdle
    /\ runs = [r \in Runs |-> RunIdle]
    /\ row_run = <<>>

\* the dataset grows by one post
SamplerAddPost ==
    /\ s_result = SamplerIdle
    /\ Len(s_posts) < MaxPosts
    /\ \E p \in PostKinds : s_posts' = Append(s_posts, p)
    /\ UNCHANGED <<s_result, qual_vars, two_vars, pipeline_vars>>

\* get_last_5_posts_stats(username, limit): s_result records whether the
\* transport raised, the limit asked for, and the pair returned
SamplerCall ==
    /\ s_result = SamplerIdle
    /\ \E raised \in BOOLEAN, limit \in FetchLimits :
          LET stats == get_last_5_posts_stats(
                           [raised |-> raised, posts |-> IF raised THEN <<>> ELSE s_posts],
                           limit)
          IN  s_result' = <<raised, limit, stats[1], stats[2]>>
    /\ UNCHANGED <<s_posts, qual_vars, two_vars, pipeline_vars>>

SamplerNext == SamplerAddPost \/ SamplerCall

SamplerSpec == SamplerInit /\ [][SamplerNext]_vars

----------------------------------------------------------------------------
(* Claims about get_last_5_posts_stats, under SamplerSpec *)

\* the conventional median of the values val[i], i in S, truncated: the k-th
\* smallest value is the one with fewer than k values below it and at least
\* k values not above it
KthSmallest(val, S, k) ==
    CHOOSE v \in {val[i] : i \in S} :
        /\ Cardinality({i \in S : val[i] < v}) < k
        /\ Cardinality({i \in S : val[i] <= v}) >= k

MedianOf(val, S) ==
    LET m == Cardinality(S)
    IN  IF m % 2 = 1 THEN KthSmallest(val, S, (m + 1) \div 2)
        ELSE (KthSmallest(val, S, m \div 2) + KthSmallest(val, S, m \div 2 + 1)) \div 2

Min(a, b) == IF a < b THEN a ELSE b

\* the sets of min(8, n) posts that are the most recent ones
MostRecent(posts) ==
    {S \in SUBSET (1..Len(posts)) :
        /\ Cardinality(S) = Min(8, Len(posts))
        /\ \A i \in S, j \in (1..Len(posts)) \ S :
              Get(posts[i], "takenAtTimestamp", 0) >= Get(posts[j], "takenAtTimestamp", 0)}

SamplerReturned == s_result # SamplerIdle /\ ~s_result[1]

----------------------------------------------------------------------------
(* Claims about the button handler, under Spec *)

Positions(op) == {i \in 1..Len(trace) : trace[i].op = op}

\* the rows this run has appended to Main
RunRows == SubSeq(main_rows, Len(InitialMain) + 1, Len(main_rows))

AppendAttempts(name) ==
    {i \in Positions("append_profile") : trace[i].arg = name}

IterPositions(op) == {i \in 1..Len(iter) : iter[i].op = op}

Halted == pc \in {"Done", "Crashed", "ValidationError"}

\* every character typed is a comma or a blank (the empty input included)
OnlySeparators == \A i \in 1..Len(hashtags_input) : hashtags_input[i] \in {",", " "}

\* C1: within one run no account name is appended to Main more than once:
\* at most one append is attempted for it and at most one row of the run names it.
C1_NoDuplicateAppend ==
    \A name \in Users :
        /\ Cardinality(AppendAttempts(name)) <= 1
        /\ Cardinality({i \in 1..Len(RunRows) : RunRows[i].username = name}) <= 1

\* C1 witness: the same hashtag was entered twice and scraped twice, and the
\* run appended one row for each of two accounts
C1_Witness ==
    /\ pc = "Done"
    /\ Len(hashtags) = 2 /\ hashtags[1] = hashtags[2]
    /\ Cardinality(Positions("hashtag_call")) = 2
    /\ \A name \in {1, 2} : Cardinality(AppendAttempts(name)) = 1
    /\ Len(RunRows) = 2

\* C2 as stated: a candidate whose name is in the username column when it is
\* reached gets no profile call, no posts call and no append.
C2_PresentNeverEnriched ==
    (iter # <<>> /\ iter[1].present) => Len(iter) = 1

\* C2 amended: a candidate whose name is in the username column when it is
\* reached, and for which the read of the column succeeds, gets no profile
\* call, no posts call and no append, and the loop goes on.
C2_PresentAndReadNeverEnriched ==
    (iter # <<>> /\ iter[1].present /\ iter[1].ok) =>
        /\ Len(iter) = 1
        /\ pc \in {"Loop", "Done"}
        /\ username = NoUser

\* C2 witness: account 1 is in Main, the read succeeded, the candidate was skipped
C2_Witness ==
    /\ iter = <<Membership(1, TRUE, TRUE)>>
    /\ pc = "Loop"
    /\ trace[Len(trace)] = Op("membership", 1)

\* C3: an append to Main that raises is not fatal: the handler goes on with
\* the loop (or completes), it has not been left.
C3_AppendFailureNotFatal ==
    (iter # <<>> /\ iter[Len(iter)].op = "append_profile" /\ ~iter[Len(iter)].ok) =>
        pc \in {"Loop", "Done"}

\* C4: an input that is empty, blank or without any non-blank piece between
\* its commas ends in the validation error with no transport call, no store
\* read and no store write.
C4_BlankInputNoSideEffects ==
    (OnlySeparators /\ pc # "Idle") =>
        /\ pc = "ValidationError"
        /\ trace = <<>>
        /\ hashtag_rows = <<>>
        /\ main_rows = InitialMain

\* C4 witness: the input is not blank but has no hashtag ("," with blanks),
\* and the handler has ended in the validation error
C4_Witness ==
    /\ pc = "ValidationError"
    /\ \E i \in 1..Len(hashtags_input) : hashtags_input[i] = ","
    /\ \E i \in 1..Len(hashtags_input) : hashtags_input[i] = " "
    /\ trace = <<>>

\* the three conditions of the claim on a profile and the two medians
Qualifies(followers, posts, likes, comments) ==
    /\ followers > 1000
    /\ posts > 5
    /\ (likes + comments) * 100 * 2 >= followers

\* C5: an append is attempted only for a candidate with more than 1000
\* followers, more than 5 posts and an engagement rate of at least 0.5, and
\* for every candidate that passed the membership check, has a profile and
\* meets the three conditions an append is attempted; each row of the run
\* carries such values.
C5_AppendIffQualified ==
    /\ \A i \in 1..Len(RunRows) :
          Qualifies(RunRows[i].followers_count, RunRows[i].posts_count,
                    RunRows[i].median_likes, RunRows[i].median_comments)
    /\ (pc = "Persisting" \/ IterPositions("append_profile") # {}) =>
          /\ Len(iter) >= 3
          /\ iter[2].op = "profile_call" /\ ~iter[2].profile.is_none
          /\ iter[3].op = "posts_call"
          /\ Qualifies(iter[2].profile.followers_count, iter[2].profile.posts_count,
                       iter[3].likes, iter[3].comments)
    /\ (/\ Len(iter) >= 3
        /\ ~iter[2].profile.is_none
        /\ Qualifies(iter[2].profile.followers_count, iter[2].profile.posts_count,
                     iter[3].likes, iter[3].comments)) =>
          (pc = "Persisting" \/ IterPositions("append_profile") # {})
    /\ (Len(iter) >= 3 /\ pc # "Persisting" /\ IterPositions("append_profile") = {}) =>
          (iter[3].likes + iter[3].comments) * 200 < iter[2].profile.followers_count

\* C5 witness: a row was appended at an engagement rate of exactly 0.5
\* (1200 followers, medians 5 and 1)
C5_Witness ==
    /\ Len(RunRows) >= 1
    /\ RunRows[1].followers_count = 1200
    /\ RunRows[1].median_likes + RunRows[1].median_comments = 6
    /\ RunRows[1].engagement_rate = 50

\* the profile call of the iteration returned a profile that fails the audience test
IterGateFailed ==
    /\ Len(iter) >= 2
    /\ ~iter[2].profile.is_none
    /\ (iter[2].profile.followers_count <= 1000 \/ iter[2].profile.posts_count <= 5)

\* C6: a candidate whose profile has at most 1000 followers or at most 5
\* posts gets no posts call and no append; the loop goes on.
C6_GateBeforeSampling ==
    IterGateFailed =>
        /\ Len(iter) = 2
        /\ pc \in {"Loop", "Done"}
        /\ trace[Len(trace)] = Op("profile_call", iter[2].arg)

\* C6 witness: a profile with 500 followers and 10 posts was rejected
C6_Witness ==
    /\ IterGateFailed
    /\ iter[2].profile.followers_count = 500
    /\ iter[2].profile.posts_count = 10
    /\ pc = "Loop"

\* C7: once the input is accepted, exactly one append to the Hashtags table
\* is attempted, as the first operation of the run (so before any hashtag
\* call), whatever follows; no append is attempted otherwise; and when the
\* append raised, the handler is in the resolver with the first hashtag to scrape.
C7_OneAuditAppendFirst ==
    /\ pc \in {"Idle", "ValidationError", "Audit"} => trace = <<>>
    /\ pc \notin {"Idle", "ValidationError", "Audit"} =>
          /\ Positions("append_hashtags") = {1}
          /\ Len(hashtag_rows) = (IF trace[1].ok THEN 1 ELSE 0)
    /\ (~OnlySeparators /\ pc # "Idle") => pc # "ValidationError"
    /\ (Len(trace) = 1 /\ ~trace[1].ok) =>
          pc = "Resolving" /\ hidx = 1 /\ hidx <= Len(hashtags)

\* C7 witness: the audit append raised, the hashtags were scraped all the
\* same, and the run completed without any candidate qualifying
C7_Witness ==
    /\ pc = "Done"
    /\ ~trace[1].ok
    /\ hashtag_rows = <<>>
    /\ Positions("hashtag_call") # {}
    /\ Positions("membership") # {}
    /\ RunRows = <<>>

ResolverAtReturn == pc = "Resolving" /\ hidx > Len(hashtags)

\* C8: when the resolver returns, it has called the transport once for every
\* hashtag of the input, in order, whichever calls raised, and the set it
\* returns holds every owner listed by a call that did not raise.
C8_ResolverSurvivesFailures ==
    /\ pc = "Resolving" =>
          /\ Cardinality(Positions("hashtag_call")) = hidx - 1
          /\ \A i \in 1..(hidx - 1) :
                trace[i + 1].op = "hashtag_call" /\ trace[i + 1].arg = hashtags[i]
    /\ ResolverAtReturn =>
          /\ Cardinality(Positions("hashtag_call")) = Len(hashtags)
          /\ owners_ok \subseteq Members(unique_usernames)

\* C8 witness: the call for the first of two hashtags raised, the second was
\* scraped and its owners are in the set returned
C8_Witness ==
    /\ ResolverAtReturn
    /\ Len(hashtags) = 2
    /\ failed_calls = {1}
    /\ owners_ok # {}
    /\ owners_ok \subseteq Members(unique_usernames)

\* C10: a run with valid input ends in the completion state, with one
\* membership check made for each candidate the resolver returned.
C10_RunCompletes ==
    (Halted /\ ~OnlySeparators) =>
        /\ pc = "Done"
        /\ \A name \in Users :
              Cardinality({i \in Positions("membership") : trace[i].arg = name})
                  = unique_usernames[name]

\* C11: when the read of the username column raises, the membership check
\* returns False: the handler is not left, the candidate goes on to the profile
\* scrape, and the profile call is made for it.
C11_ReadFailureFailsOpen ==
    (iter # <<>> /\ ~iter[1].ok) =>
        /\ pc # "ValidationError"
        /\ Len(iter) = 1 => (pc = "Enriching" /\ username = iter[1].arg)
        /\ Len(iter) >= 2 => (iter[2].op = "profile_call" /\ iter[2].arg = iter[1].arg)
        /\ pc = "Crashed" => iter[Len(iter)].op = "append_profile"

\* C11 witness: the read raised for account 1, which is in Main, and the
\* profile call was made for it
C11_Witness ==
    /\ Len(iter) >= 2
    /\ iter[1] = Membership(1, FALSE, TRUE)
    /\ iter[2].op = "profile_call" /\ iter[2].arg = 1

----------------------------------------------------------------------------
(* The engagement-rate computation of main() on its own: any follower     *)
(* count, zero and negative included, and any two medians.                 *)

MaxCount == 4    \* greatest median in the rate harness

QualFollowers == {-1, 0, 1, 1000, 1200}

QualInit ==
    /\ pc = "Idle"
    /\ hashtags_input = <<>>
    /\ results_limit = 50
    /\ hashtags = <<>>
    /\ hidx = 0
    /\ unique_usernames = EmptySet
    /\ todo = EmptySet
    /\ username = NoUser
    /\ profile_data = NoneProfile
    /\ median_likes = 0
    /\ median_comments = 0
    /\ main_rows = InitialMain
    /\ hashtag_rows = <<>>
    /\ trace = <<>>
    /\ iter = <<>>
    /\ owners_ok = {}
    /\ failed_calls = {}
    /\ owners_seen = {}
    /\ s_posts = <<>>
    /\ s_result = SamplerIdle
    /\ q_in \in [followers : QualFollowers, likes : 0..MaxCount, comments : 0..MaxCount]
    /\ q_rate = QualIdle
    /\ runs = [r \in Runs |-> RunIdle]
    /\ row_run = <<>>

\* lines 241-244 of main() for a profile with q_in.followers followers
QualCompute ==
    /\ q_rate = QualIdle
    /\ q_rate' = <<engagement_rate([is_none |-> FALSE, username |-> 1, posts_count |-> 6,
                                    followers_count |-> q_in.followers],
                                   q_in.likes, q_in.comments)>>
    /\ UNCHANGED <<q_in, sampler_vars, two_vars, pipeline_vars>>

QualNext == QualCompute

QualSpec == QualInit /\ [][QualNext]_vars

\* C12: the engagement computation never divides by zero, a profile with
\* zero (or fewer) followers gets the rate 0, and any other profile gets
\* (median_likes + median_comments) / follower_count * 100.
C12_NoZeroDivisor ==
    q_rate # QualIdle =>
        /\ q_rate[1].den # 0
        /\ q_in.followers <= 0 => q_rate[1].num = 0
        /\ q_in.followers > 0 =>
              q_rate[1].num * q_in.followers = (q_in.likes + q_in.comments) * 100 * q_rate[1].den

\* C12 witness: the rate was computed for zero followers and non-zero medians
C12_Witness ==
    /\ q_rate # QualIdle
    /\ q_in.followers = 0
    /\ q_in.likes + q_in.comments > 0
    /\ q_rate[1].num = 0

StageOrder == <<"membership", "profile_call", "posts_call", "append_profile">>

\* a stage and the stage that comes next
StagePairs == {<<StageOrder[k], StageOrder[k + 1]>> : k \in 1..3}

\* the positions of the loop's calls in the trace of the run
LoopPositions ==
    {i \in 1..Len(trace) : trace[i].op \in {StageOrder[k] : k \in 1..4}}

\* no candidate of the loop is left to iterate
Exhausted == \A name \in Users : todo[name] = 0

\* the loop goes on: it is at its head, or ended because no candidate was left
LoopGoesOn == pc \in {"Loop", "Done"} /\ (pc = "Done" => Exhausted)

\* C13: the calls of one iteration are a prefix of membership check, profile
\* scrape, posts scrape, Main append, all for one candidate; a stage is reached
\* only if the ones before it ran and did not skip; in the run's trace a call
\* that is not a membership check directly follows the call of the stage
\* before it for the same candidate, and no candidate has two membership
\* checks, so the calls of a candidate are consecutive, in stage order, each at
\* most once, and none of them lies between the calls of another candidate.
C13_StagesInOrderOneCandidate ==
    /\ Len(iter) <= 4
    /\ \A i \in 1..Len(iter) : iter[i].op = StageOrder[i] /\ iter[i].arg = iter[1].arg
    /\ Len(iter) >= 2 => ~(iter[1].ok /\ iter[1].present)
    /\ Len(iter) >= 3 =>
          /\ ~iter[2].profile.is_none
          /\ iter[2].profile.followers_count > 1000
          /\ iter[2].profile.posts_count > 5
    /\ Len(iter) >= 4 =>
          Qualifies(iter[2].profile.followers_count, iter[2].profile.posts_count,
                    iter[3].likes, iter[3].comments)
    /\ pc = "Enriching" => Len(iter) = 1
    /\ pc = "Sampling" => Len(iter) = 2
    /\ pc = "Persisting" => Len(iter) = 3
    /\ (Len(iter) = 1 /\ iter[1].ok /\ iter[1].present) => LoopGoesOn
    /\ \A i \in LoopPositions :
          trace[i].op # "membership" =>
              /\ <<trace[i - 1].op, trace[i].op>> \in StagePairs
              /\ trace[i - 1].arg = trace[i].arg
    /\ \A i, j \in Positions("membership") : trace[i].arg = trace[j].arg => i = j
    /\ \A i \in 1..Len(iter) :
          /\ trace[Len(trace) - Len(iter) + i].op = iter[i].op
          /\ trace[Len(trace) - Len(iter) + i].arg = iter[i].arg

\* C13 witness: the run is complete, two candidates went through all four
\* stages, one after the other
C13_Witness ==
    /\ pc = "Done"
    /\ Cardinality(Positions("append_profile")) = 2
    /\ Cardinality(LoopPositions) = 8

\* C14: a profile call that raised, or whose job delivered no item, returns
\* None; a candidate with a None profile gets no posts call and no append
\* (the profile call is the last call of the run so far), and the loop goes on.
C14_NoneProfileSkipped ==
    Len(iter) >= 2 =>
        /\ (~iter[2].ok \/ iter[2].items = 0) => iter[2].profile.is_none
        /\ iter[2].profile.is_none =>
              /\ Len(iter) = 2
              /\ LoopGoesOn
              /\ trace[Len(trace)] = Op("profile_call", iter[2].arg)
              /\ AppendAttempts(iter[2].arg) = {}

\* C14 witness: the profile call raised, the loop is back at its head with a
\* candidate left
C14_Witness ==
    /\ Len(iter) = 2
    /\ ~iter[2].ok
    /\ pc = "Loop"
    /\ ~Exhausted

\* C15: a posts call that raised returns (0, 0) and does not leave main();
\* no append is attempted and no row stored for the candidate, and the loop
\* goes on.
C15_SamplingFailureSkipped ==
    (Len(iter) >= 3 /\ ~iter[3].ok) =>
        /\ iter[3].likes = 0 /\ iter[3].comments = 0
        /\ Len(iter) = 3
        /\ LoopGoesOn
        /\ AppendAttempts(iter[3].arg) = {}
        /\ \A i \in 1..Len(RunRows) : RunRows[i].username # iter[3].arg

\* C15 witness: the posts call raised for a candidate that had passed the
\* audience test, the loop is back at its head with a candidate left
C15_Witness ==
    /\ Len(iter) = 3
    /\ ~iter[3].ok
    /\ iter[2].profile.followers_count > 1000
    /\ pc = "Loop"
    /\ ~Exhausted

----------------------------------------------------------------------------
(* Two runs of the handler, started by two operators, on the same Main     *)
(* worksheet.  Each run is taken from the head of its for loop, with the   *)
(* names its resolver returned; the steps of the two runs interleave at    *)
(* the calls to the transport and to the worksheet.                        *)

\* the names a resolver can have returned to a run
Candidates == {1, 2}

CandidateSets == {[u \in Users |-> IF u \in S THEN 1 ELSE 0] : S \in (SUBSET Candidates) \ {{}}}

TwoRunInit ==
    /\ pc = "Idle"
    /\ hashtags_input = <<>>
    /\ results_limit = 50
    /\ hashtags = <<>>
    /\ hidx = 0
    /\ unique_usernames = EmptySet
    /\ todo = EmptySet
    /\ username = NoUser
    /\ profile_data = NoneProfile
    /\ median_likes = 0
    /\ median_comments = 0
    /\ main_rows = InitialMain
    /\ hashtag_rows = <<>>
    /\ trace = <<>>
    /\ iter = <<>>
    /\ owners_ok = {}
    /\ failed_calls = {}
    /\ owners_seen = {}
    /\ s_posts = <<>>
    /\ s_result = SamplerIdle
    /\ q_in = QualUnused
    /\ q_rate = QualIdle
    /\ runs \in [Runs -> {[RunIdle EXCEPT !.pc = "Loop", !.todo = c] : c \in CandidateSets}]
    /\ row_run = <<>>

\* the locals of a run's iteration once it has ended
Cleared(run) == [run EXCEPT !.username = NoUser, !.profile_data = NoneProfile,
                            !.median_likes = 0, !.median_comments = 0]

\* run r: the loop yields a name, and user_already_in_sheet reads the column
RunFiltering(r) ==
    /\ runs[r].pc = "Loop"
    /\ \E name \in Users, read_ok \in BOOLEAN :
          /\ runs[r].todo[name] > 0
          /\ LET skip == user_already_in_sheet(name, main_rows, read_ok)
                 check == [ok |-> read_ok, len |-> Len(main_rows)]
             IN  runs' = [runs EXCEPT ![r] =
                            [@ EXCEPT !.todo = remaining(@, name),
                                      !.checks = [@ EXCEPT ![name] = <<check>>],
                                      !.pc = IF skip THEN "Loop" ELSE "Enriching",
                                      !.username = IF skip THEN @ ELSE name]]
    /\ UNCHANGED <<main_rows, row_run, single_run_vars, sampler_vars, qual_vars>>

\* run r: scrape_profile_info, the None test and the audience test
RunEnriching(r) ==
    /\ runs[r].pc = "Enriching"
    /\ \E out \in ProfileOutcomes :
          LET profile == scrape_profile_info(runs[r].username, out)
          IN  runs' = [runs EXCEPT ![r] =
                          IF ~profile.is_none /\ audience_gate(profile)
                          THEN [@ EXCEPT !.pc = "Sampling", !.profile_data = profile]
                          ELSE Cleared([@ EXCEPT !.pc = "Loop"])]
    /\ UNCHANGED <<main_rows, row_run, single_run_vars, sampler_vars, qual_vars>>

\* run r: get_last_5_posts_stats and the engagement test
RunSampling(r) ==
    /\ runs[r].pc = "Sampling"
    /\ \E out \in PostsOutcomes :
          LET stats == get_last_5_posts_stats(out, PostsLimit)
          IN  runs' = [runs EXCEPT ![r] =
                          IF low_engagement(engagement_rate(@.profile_data, stats[1], stats[2]))
                          THEN Cleared([@ EXCEPT !.pc = "Loop"])
                          ELSE [@ EXCEPT !.pc = "Persisting",
                                         !.median_likes = stats[1],
                                         !.median_comments = stats[2]]]
    /\ UNCHANGED <<main_rows, row_run, single_run_vars, sampler_vars, qual_vars>>

\* run r: append_profile_to_sheet
RunPersisting(r) ==
    /\ runs[r].pc = "Persisting"
    /\ \E ok \in BOOLEAN :
          /\ main_rows' =
                IF ok
                THEN append_row(main_rows,
                            profile_row(runs[r].profile_data, runs[r].median_comments,
                                        runs[r].median_likes,
                                        engagement_rate(runs[r].profile_data,
                                                        runs[r].median_likes,
                                                        runs[r].median_comments)))
                ELSE main_rows
          /\ row_run' = IF ok THEN Append(row_run, r) ELSE row_run
          /\ runs' = [runs EXCEPT ![r] = Cleared([@ EXCEPT !.pc = after_append(ok)])]
    /\ UNCHANGED <<single_run_vars, sampler_vars, qual_vars>>

\* run r: its for loop is exhausted
RunComplete(r) ==
    /\ runs[r].pc = "Loop"
    /\ \A name \in Users : runs[r].todo[name] = 0
    /\ runs' = [runs EXCEPT ![r].pc = "Done"]
    /\ UNCHANGED <<main_rows, row_run, single_run_vars, sampler_vars, qual_vars>>

TwoRunNext ==
    \E r \in Runs :
        \/ RunFiltering(r)
        \/ RunEnriching(r)
        \/ RunSampling(r)
        \/ RunPersisting(r)
        \/ RunComplete(r)

TwoRunSpec == TwoRunInit /\ [][TwoRunNext]_vars

\* the rows of Main that name `name`, among its first n rows
RowsNaming(name, n) == {i \in 1..n : main_rows[i].username = name}

\* the membership check of the run that appended the k-th row of the runs
CheckOfRow(k) == runs[row_run[k]].checks[RunRows[k].username][1]

\* C16: with two runs on one Main worksheet the same name can be stored twice,
\* and only by the race between check and append: each row was appended by a
\* run whose membership check for the name either failed to read or read the
\* column when no row named it, so of two rows for one name the later one was
\* appended by the other run, whose check came before the first append.
C16_DuplicateOnlyByRace ==
    /\ Len(row_run) = Len(RunRows)
    /\ \A k \in 1..Len(row_run) :
          /\ runs[row_run[k]].checks[RunRows[k].username] # NoCheck
          /\ CheckOfRow(k).ok => RowsNaming(RunRows[k].username, CheckOfRow(k).len) = {}
    /\ \A i, j \in 1..Len(row_run) :
          (i < j /\ RunRows[i].username = RunRows[j].username) =>
              /\ row_run[i] # row_run[j]
              /\ CheckOfRow(j).ok => CheckOfRow(j).len < Len(InitialMain) + i

\* C16 witness: account 2 has two rows in Main, one by each run, and both
\* runs had read the column, without failure, before either row was there
C16_Witness ==
    /\ Len(row_run) = 2
    /\ RunRows[1].username = 2 /\ RunRows[2].username = 2
    /\ row_run[1] # row_run[2]
    /\ \A r \in Runs :
          /\ runs[r].checks[2] # NoCheck
          /\ runs[r].checks[2][1].ok
          /\ runs[r].checks[2][1].len = Len(InitialMain)

----------------------------------------------------------------------------
(* The handler up to the return of fetch_owner_usernames_from_hashtags,    *)
(* for inputs of several hashtags, repeated ones included, and several     *)
(* values of the number input.                                             *)

MaxTags == 3    \* hashtags typed into the box

Tags == {<<"a">>, <<"b">>}

RECURSIVE TagSeqs(_)
TagSeqs(n) ==
    IF n = 0 THEN {}
    ELSE TagSeqs(n - 1)
            \cup {<<t>> : t \in Tags}
            \cup {Append(ts, t) : ts \in TagSeqs(n - 1), t \in Tags}

\* what the operator types: hashtags separated by a comma and a blank
ResolverInputs == {join(ts) : ts \in TagSeqs(MaxTags)}

\* values of st.number_input(min_value=1, max_value=1000, value=50)
ResolverLimits == {1, 50, 1000}

ResolverInit ==
    /\ pc = "Idle"
    /\ hashtags_input \in ResolverInputs
    /\ results_limit \in ResolverLimits
    /\ hashtags = <<>>
    /\ hidx = 0
    /\ unique_usernames = EmptySet
    /\ todo = EmptySet
    /\ username = NoUser
    /\ profile_data = NoneProfile
    /\ median_likes = 0
    /\ median_comments = 0
    /\ main_rows = InitialMain
    /\ hashtag_rows = <<>>
    /\ trace = <<>>
    /\ iter = <<>>
    /\ owners_ok = {}
    /\ failed_calls = {}
    /\ owners_seen = {}
    /\ s_posts = <<>>
    /\ s_result = SamplerIdle
    /\ q_in = QualUnused
    /\ q_rate = QualIdle
    /\ runs = [r \in Runs |-> RunIdle]
    /\ row_run = <<>>

ResolverNext ==
    \/ Validate
    \/ AppendHashtags
    \/ ScrapeHashtag
    \/ ResolverReturn

ResolverSpec == ResolverInit /\ [][ResolverNext]_vars

\* the hashtags the operator typed, in the order typed
Entries == CHOOSE ts \in TagSeqs(MaxTags) : join(ts) = hashtags_input

\* C17: the resolver calls the hashtag actor once for each entry typed, in
\* the order typed and as often as an entry is repeated, each time with the
\* value of the number input as resultsLimit; the set it holds (and returns)
\* is the set of owners of the items its runs delivered, items without
\* ownerUsername adding nothing.
C17_OneCallPerEntry ==
    /\ pc \in {"Resolving", "Loop"} =>
          /\ Len(trace) = hidx
          /\ hidx <= Len(Entries) + 1
          /\ \A i \in 1..(hidx - 1) : trace[i + 1] = HashtagCall(Entries[i], results_limit)
          /\ Members(unique_usernames) = owners_seen
    /\ pc = "Loop" =>
          /\ hidx = Len(Entries) + 1
          /\ Members(todo) = owners_seen
          /\ \A u \in Users : todo[u] <= 1

\* C17 witness: the input "a, a, b" with a number input of 1000: the resolver
\* has returned after three calls, one of which delivered an item without
\* owner and one for account 2, and holds account 2 only
C17_Witness ==
    /\ pc = "Loop"
    /\ hashtags_input = <<"a", ",", " ", "a", ",", " ", "b">>
    /\ results_limit = 1000
    /\ Cardinality(Positions("hashtag_call")) = 3
    /\ Members(todo) = {2}

\* C18: a step of the run never changes or removes a stored row: the rows of
\* Main and of Hashtags before the step are a prefix of the rows after it, with
\* at most one row more; Main changes only in the append step, Hashtags only
\* in the audit step, and a step that skips the candidate (membership hit, None
\* profile, failed audience or engagement test) leaves both as they are.
C18_AppendOnly ==
    [][ /\ Len(main_rows) <= Len(main_rows') /\ Len(main_rows') <= Len(main_rows) + 1
        /\ SubSeq(main_rows', 1, Len(main_rows)) = main_rows
        /\ Len(hashtag_rows) <= Len(hashtag_rows') /\ Len(hashtag_rows') <= Len(hashtag_rows) + 1
        /\ SubSeq(hashtag_rows', 1, Len(hashtag_rows)) = hashtag_rows
        /\ pc # "Persisting" => main_rows' = main_rows
        /\ pc # "Audit" => hashtag_rows' = hashtag_rows
        /\ (pc \in {"Loop", "Enriching", "Sampling"} /\ pc' = "Loop") =>
              (main_rows' = main_rows /\ hashtag_rows' = hashtag_rows)
      ]_vars

\* C18 witness: the run is complete; the row stored before it is still the
\* first row of Main, the run has appended two rows after it and one row to
\* Hashtags
C18_Witness ==
    /\ pc = "Done"
    /\ Len(main_rows) = Len(InitialMain) + 2
    /\ SubSeq(main_rows, 1, Len(InitialMain)) = InitialMain
    /\ Len(hashtag_rows) = 1

====
